---- MODULE Spec2Model ----
(***************************************************************************)
(* Model of statistics.py: get_statistics (the line loop over a QQ group   *)
(* message history), the filter and preprocessor callbacks defined next to *)
(* it, and the parsing of a message's info line.                           *)
(*                                                                         *)
(* A Python str is a sequence of characters, each written as a string (a   *)
(* CJK character by its code point, "U64A4"); a dict is a function whose   *)
(* DOMAIN is the set of its keys.                                          *)
(***************************************************************************)
EXTENDS Integers, Sequences, FiniteSets, TLC

VARIABLES f, msg_filter, msg_preprocessor, word_filter, speak_filter,
          words, total_counts, annoy_counts, speak_counts, card_names,
          prev_is_info_line, prev_info_line, prev_date, i, name, qq, calls,
          msg, stripped, nick, num, parsed_paren, parsed_angle

vars == <<f, msg_filter, msg_preprocessor, word_filter, speak_filter,
          words, total_counts, annoy_counts, speak_counts, card_names,
          prev_is_info_line, prev_info_line, prev_date, i, name, qq, calls,
          msg, stripped, nick, num, parsed_paren, parsed_angle>>

\* the state of get_statistics
stat_vars == <<f, msg_filter, msg_preprocessor, word_filter, speak_filter,
               words, total_counts, annoy_counts, speak_counts, card_names,
               prev_is_info_line, prev_info_line, prev_date, i, name, qq, calls>>

\* the state of one call of qq_msg_preprocessor
pre_vars == <<msg, stripped>>

\* the state of one parse of a name field written in both forms
parse_vars == <<nick, num, parsed_paren, parsed_angle>>

----------------------------------------------------------------------------
(* Bounds *)

\* lines of the transcript read by one run of get_statistics
MaxLines == 4

\* length of a message given to qq_msg_preprocessor
MaxMsgLen == 6

\* length of a display name written into a name field
MaxNameLen == 3

----------------------------------------------------------------------------
(* Python str and dict primitives *)

None == "None"

EmptyDict == [k \in {} |-> 0]

Min(a, b) == IF a < b THEN a ELSE b

Max(a, b) == IF a > b THEN a ELSE b

\* s[lo:hi] with Python's handling of negative and out-of-range indices
PySlice(s, lo, hi) ==
    LET n == Len(s)
        l == IF lo < 0 THEN Max(n + lo, 0) ELSE Min(lo, n)
        h == IF hi < 0 THEN Max(n + hi, 0) ELSE Min(hi, n)
    IN  IF l >= h THEN <<>> ELSE SubSeq(s, l + 1, h)

\* s[lo:]
PySliceFrom(s, lo) == PySlice(s, lo, Len(s))

\* s.rfind(c): the 0-based index of the last c in s, or -1
RFind(s, c) ==
    IF \E k \in 1..Len(s) : s[k] = c
    THEN (CHOOSE k \in 1..Len(s) : s[k] = c /\ \A j \in (k + 1)..Len(s) : s[j] # c) - 1
    ELSE -1

\* s.find(c): the 0-based index of the first c in s, or -1
Find(s, c) ==
    IF \E k \in 1..Len(s) : s[k] = c
    THEN (CHOOSE k \in 1..Len(s) : s[k] = c /\ \A j \in 1..(k - 1) : s[j] # c) - 1
    ELSE -1

\* s.split(c): the pieces of s between the occurrences of c, empty pieces kept
RECURSIVE Split(_, _)
Split(s, c) ==
    LET k == Find(s, c)
    IN  IF k = -1 THEN <<s>>
        ELSE <<PySlice(s, 0, k)>> \o Split(PySliceFrom(s, k + 1), c)

\* c.join(parts)
RECURSIVE Join(_, _)
Join(c, parts) ==
    IF parts = <<>> THEN <<>>
    ELSE IF Len(parts) = 1 THEN parts[1]
    ELSE parts[1] \o <<c>> \o Join(c, Tail(parts))

\* sub in s
Contains(s, sub) ==
    \E k \in 0..(Len(s) - Len(sub)) : PySlice(s, k, k + Len(sub)) = sub

\* s.startswith(p)
StartsWith(s, p) == PySlice(s, 0, Len(p)) = p

Whitespace == {" ", "\n", "\t", "\r"}

\* s.strip()
RECURSIVE Strip(_)
Strip(s) ==
    IF s = <<>> THEN s
    ELSE IF s[1] \in Whitespace THEN Strip(Tail(s))
    ELSE IF s[Len(s)] \in Whitespace THEN Strip(SubSeq(s, 1, Len(s) - 1))
    ELSE s

Digits == {"0", "1", "2", "3", "4", "5", "6", "7", "8", "9"}

DigitVal(c) == CHOOSE v \in 0..9 : <<"0", "1", "2", "3", "4", "5", "6", "7", "8", "9">>[v + 1] = c

\* int(s) of a string of decimal digits
RECURSIVE ToInt(_)
ToInt(s) ==
    IF s = <<>> THEN 0
    ELSE 10 * ToInt(SubSeq(s, 1, Len(s) - 1)) + DigitVal(s[Len(s)])

\* the count of a key already present is started again
IncrReset(d, k) == [x \in DOMAIN d \cup {k} |-> IF x = k THEN 1 ELSE d[x]]

\* d[k] += 1 if k in d, else d[k] = 1
Incr(d, k) ==
    [x \in DOMAIN d \cup {k} |-> IF x = k THEN (IF k \in DOMAIN d THEN d[k] + 1 ELSE 1) ELSE d[x]]

\* the assignment is left out
PutDropped(d, k, v) == d

\* the first value of a key is kept
PutIfAbsent(d, k, v) ==
    IF k \in DOMAIN d THEN d ELSE [x \in DOMAIN d \cup {k} |-> IF x = k THEN v ELSE d[x]]

\* d[k] = v
Put(d, k, v) == [x \in DOMAIN d \cup {k} |-> IF x = k THEN v ELSE d[x]]

\* sum(d.values())
RECURSIVE SumValues(_)
SumValues(d) ==
    IF DOMAIN d = {} THEN 0
    ELSE LET k == CHOOSE x \in DOMAIN d : TRUE
         IN  d[k] + SumValues([x \in DOMAIN d \ {k} |-> d[x]])

----------------------------------------------------------------------------
(* The callbacks defined in statistics.py *)

NoticeRecalledAnnoy == <<"U4E00", "U6761", "U533F", "U540D", "U6D88", "U606F", "U88AB", "U64A4", "U56DE">>

NoticeRecalledMember == <<"U64A4", "U56DE", "U4E86", "U4E00", "U6761", "U6210", "U5458", "U6D88", "U606F">>

NoticeRecalled == <<"U64A4", "U56DE", "U4E86", "U4E00", "U6761", "U6D88", "U606F">>

NoticeEssence == <<"U88AB", "U8BBE", "U4E3A", "U4E86", "U7CBE", "U534E", "U6D88", "U606F">>

NoticeUnsupported == <<"U4E0D", "U652F", "U6301", "U7684", "U6D88", "U606F", "U7C7B", "U578B">>

NoticeUpgrade == <<"U8BF7", "U4F7F", "U7528", "U6700", "U65B0", "U7248", "U624B", "U673A", "Q", "Q">>

SysQQ == <<"1", "0", "0", "0", "0", "0", "0">>

AnnoyQQ == <<"8", "0", "0", "0", "0", "0", "0", "0">>

qq_msg_filter_common(q, m) ==
    ~ (\/ q = SysQQ
       \/ Contains(m, NoticeRecalledAnnoy)
       \/ Contains(m, NoticeRecalledMember)
       \/ Contains(m, NoticeRecalled)
       \/ Contains(m, NoticeEssence)
       \/ Contains(m, NoticeUnsupported)
       \/ Contains(m, NoticeUpgrade))

Sept2023 == <<"2", "0", "2", "3", "-", "0", "9", "-">>

FirstDay == 14

LastDay == 23

qq_msg_filter_10days(date, n, q, m) ==
    LET day == ToInt(Split(date, "-")[3])
    IN  /\ StartsWith(date, Sept2023)
        /\ FirstDay <= day
        /\ day <= LastDay
        /\ qq_msg_filter_common(q, m)

\* re.sub("@.+ ", "", m): "." matches every character of a line and "+" is
\* greedy, so the leftmost match runs from the first "@" that has a
\* character and then a space after it to the LAST space of m; no space is
\* left after it, so there is no second match.
qq_msg_preprocessor(m) ==
    LET at   == Find(m, "@")
        last == RFind(m, " ")
    IN  IF at # -1 /\ last >= at + 2
        THEN PySlice(m, 0, at) \o PySliceFrom(m, last + 1)
        ELSE m

\* the content of ./stopwords.dat, one word a line
stop_words == {<<"y", "o">>}

qq_word_filter(word) == Len(word) > 1 /\ word \notin stop_words

\* the anonymous number is not excluded
sys_only_speak_filter(n, q) == q # SysQQ

no_annoy_sys_speak_filter(n, q) == q # AnnoyQQ /\ q # SysQQ

\* jieba.lcut(m) on the characters of the model: a run of letters, digits
\* and CJK characters is one word, every other character a word of its own
WordBreaks == Whitespace \cup {"@", "(", ")", "<", ">", ":"}

RECURSIVE lcut(_)
lcut(m) ==
    IF m = <<>> THEN <<>>
    ELSE IF m[1] \in WordBreaks THEN <<SubSeq(m, 1, 1)>> \o lcut(Tail(m))
    ELSE LET n == IF \E k \in 1..Len(m) : m[k] \in WordBreaks
                  THEN (CHOOSE k \in 1..Len(m) :
                            m[k] \in WordBreaks /\ \A j \in 1..(k - 1) : m[j] \notin WordBreaks) - 1
                  ELSE Len(m)
         IN  <<SubSeq(m, 1, n)>> \o lcut(SubSeq(m, n + 1, Len(m)))

\* msg_filter is None or msg_filter(date, n, q, m)
MsgFilterPasses(date, n, q, m) ==
    \/ msg_filter = None
    \/ msg_filter = "qq_msg_filter_10days" /\ qq_msg_filter_10days(date, n, q, m)

\* speak_filter is None or speak_filter(n, q)
SpeakFilterPasses(n, q) ==
    \/ speak_filter = None
    \/ speak_filter = "no_annoy_sys_speak_filter" /\ no_annoy_sys_speak_filter(n, q)

\* msg_preprocessor(m) when a preprocessor is given
Preprocess(m) == IF msg_preprocessor = None THEN m ELSE qq_msg_preprocessor(m)

\* [word for word in ws if word_filter is None or word_filter(word)]
KeepWords(ws) == SelectSeq(ws, LAMBDA w : word_filter = None \/ qq_word_filter(w))

----------------------------------------------------------------------------
(* Parsing a line *)

\* re.search(r"^\d{4}-\d{2}-\d{2}", s): the matched date, or None
MatchDate(s) ==
    IF /\ Len(s) >= 10
       /\ \A k \in {1, 2, 3, 4, 6, 7, 9, 10} : s[k] \in Digits
       /\ s[5] = "-"
       /\ s[8] = "-"
    THEN SubSeq(s, 1, 10)
    ELSE None

\* " ".join(info_line.split(" ")[2:])
NameQQ(info_line) == Join(" ", PySliceFrom(Split(info_line, " "), 2))

LeftIndex(name_qq) ==
    IF RFind(name_qq, "(") = -1 THEN RFind(name_qq, "<") ELSE RFind(name_qq, "(")

\* the sender's name and qq number cut from the info line
ParseName(info_line) ==
    LET name_qq == NameQQ(info_line)
    IN  PySlice(name_qq, 0, LeftIndex(name_qq))

ParseQQ(info_line) ==
    LET name_qq == NameQQ(info_line)
    IN  PySlice(name_qq, LeftIndex(name_qq) + 1, -1)

----------------------------------------------------------------------------
(* The transcript *)

Info1 == <<"2", "0", "2", "3", "-", "0", "9", "-", "1", "5", " ", "1", "0", ":", "0", "0", ":", "0", "0", " ", "A", "l", "(", "1", "1", "1", ")", "\n">>

Info2 == <<"2", "0", "2", "3", "-", "0", "9", "-", "1", "6", " ", "1", "0", ":", "0", "0", ":", "0", "1", " ", "B", "o", "<", "1", "1", "1", ">", "\n">>

InfoAnnoy == <<"2", "0", "2", "3", "-", "0", "9", "-", "1", "6", " ", "1", "0", ":", "0", "0", ":", "0", "2", " ", "X", "(", "8", "0", "0", "0", "0", "0", "0", "0", ")", "\n">>

InfoSys == <<"2", "0", "2", "3", "-", "0", "9", "-", "1", "5", " ", "1", "0", ":", "0", "0", ":", "0", "3", " ", "S", "(", "1", "0", "0", "0", "0", "0", "0", ")", "\n">>

InfoBare == <<"2", "0", "2", "3", "-", "0", "9", "-", "2", "4", " ", "1", "0", ":", "0", "0", ":", "0", "4", " ", "A", "l", "\n">>

Body == <<" ", "@", "B", "o", " ", "h", "i", " ", "y", "o", "\n">>

BodyRecalled == <<"A", "l", "U64A4", "U56DE", "U4E86", "U4E00", "U6761", "U6D88", "U606F", "\n">>

Lines == {Info1, Info2, InfoAnnoy, InfoSys, InfoBare, Body, BodyRecalled}

MsgFilters == {None, "qq_msg_filter_10days"}

MsgPreprocessors == {None, "qq_msg_preprocessor"}

WordFilters == {None, "qq_word_filter"}

SpeakFilters == {None, "no_annoy_sys_speak_filter"}

----------------------------------------------------------------------------
(* get_statistics: one action for each branch of the loop over the lines *)

\* the day's count moved out of the msg_filter block
NextTotalCountsUnfiltered(accepted, date) == Incr(total_counts, date)

\* the dict after the "if msg_filter is None or msg_filter(...)" block
NextTotalCounts(accepted, date) ==
    IF accepted THEN Incr(total_counts, date) ELSE total_counts

\* the anonymous count moved out of the msg_filter block
NextAnnoyCountsUnfiltered(accepted, q, date) ==
    IF q = AnnoyQQ THEN Incr(annoy_counts, date) ELSE annoy_counts

NextAnnoyCounts(accepted, q, date) ==
    IF accepted /\ q = AnnoyQQ THEN Incr(annoy_counts, date) ELSE annoy_counts

NextSpeakCounts(accepted, n, q) ==
    IF accepted /\ SpeakFilterPasses(n, q) THEN Incr(speak_counts, q) ELSE speak_counts

NextCardNames(accepted, n, q) ==
    IF accepted /\ SpeakFilterPasses(n, q) THEN Put(card_names, q, n) ELSE card_names

\* the message as tokenised: preprocessed only inside the accepted block
NextMsg(accepted, m) == IF accepted THEN Preprocess(m) ELSE m

NextWords(accepted, m) ==
    IF accepted THEN words \o KeepWords(lcut(Preprocess(m))) ELSE words

\* the callbacks get_statistics calls while it processes a message line
Called(accepted, m) ==
    (IF msg_filter # None THEN {"msg_filter"} ELSE {})
    \cup (IF accepted /\ speak_filter # None THEN {"speak_filter"} ELSE {})
    \cup (IF accepted /\ msg_preprocessor # None THEN {"msg_preprocessor"} ELSE {})
    \cup (IF accepted /\ word_filter # None /\ lcut(Preprocess(m)) # <<>>
          THEN {"word_filter"} ELSE {})

\* the flag is not cleared
AfterMsgLineKept == prev_is_info_line

\* "prev_is_info_line = False" when the message line is taken
AfterMsgLine == FALSE

\* "if match_result"
IsInfoLine(s) == MatchDate(s) # None

\* "elif prev_is_info_line"
IsMsgLine(s) == MatchDate(s) = None /\ prev_is_info_line

InitStat ==
    /\ f = <<>>
    /\ words = <<>>
    /\ total_counts = EmptyDict
    /\ annoy_counts = EmptyDict
    /\ speak_counts = EmptyDict
    /\ card_names = EmptyDict
    /\ prev_is_info_line = FALSE
    /\ prev_info_line = <<>>
    /\ prev_date = <<>>
    /\ i = <<>>
    /\ name = <<>>
    /\ qq = <<>>
    /\ calls = {}

InitPre == msg = <<>> /\ stripped = None

InitParse == nick = <<>> /\ num = <<>> /\ parsed_paren = None /\ parsed_angle = None

Init ==
    /\ msg_filter \in MsgFilters
    /\ msg_preprocessor \in MsgPreprocessors
    /\ word_filter \in WordFilters
    /\ speak_filter \in SpeakFilters
    /\ InitStat
    /\ InitPre
    /\ InitParse

\* the line starts with a date: remember it as the info line of a message
ReadInfoLine(line) ==
    /\ Len(f) < MaxLines
    /\ IsInfoLine(Strip(line))
    /\ f' = Append(f, line)
    /\ i' = Strip(line)
    /\ prev_is_info_line' = TRUE
    /\ prev_info_line' = Strip(line)
    /\ prev_date' = MatchDate(Strip(line))
    /\ calls' = {}
    /\ UNCHANGED <<words, total_counts, annoy_counts, speak_counts, card_names, name, qq>>
    /\ UNCHANGED <<msg_filter, msg_preprocessor, word_filter, speak_filter>>
    /\ UNCHANGED <<pre_vars, parse_vars>>

\* the line after an info line: the message of the record
ReadMsgLine(line) ==
    /\ Len(f) < MaxLines
    /\ ~ IsInfoLine(Strip(line))
    /\ IsMsgLine(Strip(line))
    /\ LET m == Strip(line)
           n == ParseName(prev_info_line)
           q == ParseQQ(prev_info_line)
           accepted == MsgFilterPasses(prev_date, n, q, m)
       IN  /\ f' = Append(f, line)
           /\ prev_is_info_line' = AfterMsgLine
           /\ name' = n
           /\ qq' = q
           /\ total_counts' = NextTotalCounts(accepted, prev_date)
           /\ annoy_counts' = NextAnnoyCounts(accepted, q, prev_date)
           /\ speak_counts' = NextSpeakCounts(accepted, n, q)
           /\ card_names' = NextCardNames(accepted, n, q)
           /\ i' = NextMsg(accepted, m)
           /\ words' = NextWords(accepted, m)
           /\ calls' = Called(accepted, m)
    /\ UNCHANGED <<prev_info_line, prev_date>>
    /\ UNCHANGED <<msg_filter, msg_preprocessor, word_filter, speak_filter>>
    /\ UNCHANGED <<pre_vars, parse_vars>>

\* any other line
ReadOtherLine(line) ==
    /\ Len(f) < MaxLines
    /\ ~ IsInfoLine(Strip(line))
    /\ ~ IsMsgLine(Strip(line))
    /\ f' = Append(f, line)
    /\ i' = Strip(line)
    /\ prev_is_info_line' = FALSE
    /\ calls' = {}
    /\ UNCHANGED <<words, total_counts, annoy_counts, speak_counts, card_names, name, qq>>
    /\ UNCHANGED <<prev_info_line, prev_date>>
    /\ UNCHANGED <<msg_filter, msg_preprocessor, word_filter, speak_filter>>
    /\ UNCHANGED <<pre_vars, parse_vars>>

Next ==
    \/ \E line \in Lines : ReadInfoLine(line)
    \/ \E line \in Lines : ReadMsgLine(line)
    \/ \E line \in Lines : ReadOtherLine(line)

Spec == Init /\ [][Next]_vars

----------------------------------------------------------------------------
(* qq_msg_preprocessor as a function of its message *)

MsgChars == {"@", "h", " "}

RECURSIVE StrsUpTo(_, _)
StrsUpTo(chars, n) ==
    IF n = 0 THEN {<<>>}
    ELSE LET shorter == StrsUpTo(chars, n - 1)
         IN  shorter \cup {Append(s, c) : s \in shorter, c \in chars}

Msgs == StrsUpTo(MsgChars, MaxMsgLen)

InitPreprocessor ==
    /\ msg \in Msgs
    /\ stripped = None
    /\ msg_filter = None
    /\ msg_preprocessor = "qq_msg_preprocessor"
    /\ word_filter = None
    /\ speak_filter = None
    /\ InitStat
    /\ InitParse

CallPreprocessor ==
    /\ stripped = None
    /\ stripped' = Preprocess(msg)
    /\ UNCHANGED <<msg, stat_vars, parse_vars>>

NextPreprocessor == CallPreprocessor

SpecPreprocessor == InitPreprocessor /\ [][NextPreprocessor]_vars

----------------------------------------------------------------------------
(* The parse of an info line as a function of the sender's name and number *)

NameChars == {"a", "(", "<"}

Names == StrsUpTo(NameChars, MaxNameLen)

Nums == {<<"2", "2", "2">>, <<"7">>}

InfoPrefix == <<"2", "0", "2", "3", "-", "0", "9", "-", "1", "5", " ", "1", "0", ":", "0", "0", ":", "0", "0", " ">>

\* the info line of sender n with number q, the number between open and close
InfoLine(n, q, open, close) == InfoPrefix \o n \o <<open>> \o q \o <<close>>

InitParser ==
    /\ nick \in Names
    /\ num \in Nums
    /\ parsed_paren = None
    /\ parsed_angle = None
    /\ msg_filter = None
    /\ msg_preprocessor = None
    /\ word_filter = None
    /\ speak_filter = None
    /\ InitStat
    /\ InitPre

ParseParen ==
    /\ parsed_paren = None
    /\ parsed_paren' = <<ParseName(Strip(InfoLine(nick, num, "(", ")"))),
                         ParseQQ(Strip(InfoLine(nick, num, "(", ")")))>>
    /\ UNCHANGED <<nick, num, parsed_angle, stat_vars, pre_vars>>

ParseAngle ==
    /\ parsed_angle = None
    /\ parsed_angle' = <<ParseName(Strip(InfoLine(nick, num, "<", ">"))),
                         ParseQQ(Strip(InfoLine(nick, num, "<", ">")))>>
    /\ UNCHANGED <<nick, num, parsed_paren, stat_vars, pre_vars>>

NextParser == ParseParen \/ ParseAngle

SpecParser == InitParser /\ [][NextParser]_vars

----------------------------------------------------------------------------
(* The records of a transcript, read off its lines alone *)

\* line k of the transcript is the line right after an info line and is not
\* an info line itself
IsRecordAt(lines, k) ==
    /\ k >= 2
    /\ k <= Len(lines)
    /\ MatchDate(Strip(lines[k - 1])) # None
    /\ MatchDate(Strip(lines[k])) = None

RecDate(lines, k) == MatchDate(Strip(lines[k - 1]))

RecName(lines, k) == ParseName(Strip(lines[k - 1]))

RecQQ(lines, k) == ParseQQ(Strip(lines[k - 1]))

RecMsg(lines, k) == Strip(lines[k])

AcceptedAt(lines, k) ==
    /\ IsRecordAt(lines, k)
    /\ MsgFilterPasses(RecDate(lines, k), RecName(lines, k), RecQQ(lines, k), RecMsg(lines, k))

SpokenAt(lines, k) ==
    /\ AcceptedAt(lines, k)
    /\ SpeakFilterPasses(RecName(lines, k), RecQQ(lines, k))

\* d.get(k, 0)
Count(d, k) == IF k \in DOMAIN d THEN d[k] ELSE 0

\* the step reads one more line of the transcript
ReadStep == Len(f') = Len(f) + 1

Outputs == <<words, total_counts, annoy_counts, speak_counts, card_names>>

----------------------------------------------------------------------------
(* Claims *)

\* C1: after every prefix of the lines, the values of total_counts sum to
\* the number of accepted records: info lines immediately followed by a line
\* that is not an info line and that msg_filter, when given, lets through.
C1_TotalIsAccepted ==
    SumValues(total_counts) = Cardinality({k \in 1..Len(f) : AcceptedAt(f, k)})

\* two accepted records of the same day
C1_Witness ==
    \E d \in DOMAIN total_counts : total_counts[d] = 2

\* C2: speak_counts and card_names have the same keys.
C2_SameKeys == DOMAIN speak_counts = DOMAIN card_names

\* one record counted for its sender and one that speak_filter left out
C2_Witness ==
    /\ DOMAIN speak_counts # {}
    /\ SumValues(speak_counts) < SumValues(total_counts)

\* C3: every date of annoy_counts is a date of total_counts with at least
\* that count, so the anonymous counts sum to no more than the total counts.
C3_AnnoyWithinTotal ==
    /\ DOMAIN annoy_counts \subseteq DOMAIN total_counts
    /\ \A d \in DOMAIN annoy_counts :
           d \in DOMAIN total_counts /\ annoy_counts[d] <= total_counts[d]
    /\ SumValues(annoy_counts) <= SumValues(total_counts)

C3_Witness ==
    \E d \in DOMAIN annoy_counts :
        /\ d \in DOMAIN total_counts
        /\ annoy_counts[d] = 1
        /\ total_counts[d] = 2

\* C4: a message line whose record msg_filter rejects leaves words,
\* total_counts, annoy_counts, speak_counts and card_names as they were, and
\* speak_filter, msg_preprocessor and word_filter are not called for it.
C4_RejectedChangesNothing ==
    [][(ReadStep /\ IsRecordAt(f', Len(f')) /\ ~ AcceptedAt(f', Len(f')))
        => /\ UNCHANGED Outputs
           /\ calls' \cap {"speak_filter", "msg_preprocessor", "word_filter"} = {}]_vars

\* a rejected record read after an accepted one
C4_Witness ==
    /\ IsRecordAt(f, Len(f))
    /\ ~ AcceptedAt(f, Len(f))
    /\ calls = {"msg_filter"}
    /\ words # <<>>
    /\ DOMAIN speak_counts # {}

\* C5: with no_annoy_sys_speak_filter, an accepted record of sender
\* "80000000" adds one to total_counts and to annoy_counts of its date and
\* leaves speak_counts and card_names alone; an accepted record of any other
\* sender leaves annoy_counts alone.
C5_AnonymousRecord ==
    [][(speak_filter = "no_annoy_sys_speak_filter" /\ ReadStep /\ AcceptedAt(f', Len(f')))
        => IF RecQQ(f', Len(f')) = AnnoyQQ
           THEN /\ total_counts'[RecDate(f', Len(f'))]
                       = Count(total_counts, RecDate(f', Len(f'))) + 1
                /\ annoy_counts'[RecDate(f', Len(f'))]
                       = Count(annoy_counts, RecDate(f', Len(f'))) + 1
                /\ UNCHANGED <<speak_counts, card_names>>
           ELSE UNCHANGED annoy_counts]_vars

\* an anonymous record and a member's record, both accepted
C5_Witness ==
    /\ speak_filter = "no_annoy_sys_speak_filter"
    /\ AcceptedAt(f, Len(f))
    /\ RecQQ(f, Len(f)) = AnnoyQQ
    /\ DOMAIN annoy_counts # {}
    /\ DOMAIN speak_counts # {}

\* C6: a name field written name<id> is parsed to the same name and id as
\* the same field written name(id), for every name and id.
C6_AngleAsParen ==
    (parsed_paren # None /\ parsed_angle # None) => parsed_angle = parsed_paren

\* the mentions of a message as C7 describes them: an "@", one or more
\* characters that are not a space, and the space that ends them
MentionLen(m) ==
    IF m # <<>> /\ m[1] = "@" /\ Find(m, " ") >= 2 THEN Find(m, " ") + 1 ELSE 0

RECURSIVE RemoveMentions(_)
RemoveMentions(m) ==
    IF m = <<>> THEN <<>>
    ELSE IF MentionLen(m) > 0 THEN RemoveMentions(SubSeq(m, MentionLen(m) + 1, Len(m)))
    ELSE <<m[1]>> \o RemoveMentions(Tail(m))

\* C7: qq_msg_preprocessor removes exactly the mentions of the message and
\* leaves every other character in place.
C7_RemovesExactlyMentions ==
    stripped # None => stripped = RemoveMentions(msg)

\* C8: when the name field of the info line has neither "(" nor "<", the
\* message line after it fails to parse, so no tally is updated for it.
C8_BareNameNotTallied ==
    [][(/\ ReadStep
        /\ IsRecordAt(f', Len(f'))
        /\ RFind(NameQQ(Strip(f[Len(f)])), "(") = -1
        /\ RFind(NameQQ(Strip(f[Len(f)])), "<") = -1)
        => UNCHANGED <<total_counts, annoy_counts, speak_counts, card_names>>]_vars

\* C9: a line changes an output only when it is not an info line and the
\* line right before it is one; the record then carries the date, name and
\* number of that info line, and without a msg_filter every such line is
\* counted once. An info line right after an info line therefore emits nothing for
\* the first, and the lines after a message line up to the next info line
\* change nothing.
C9_OneRecordPerInfoLine ==
    [][ReadStep
        => /\ (Outputs' # Outputs) => IsRecordAt(f', Len(f'))
           /\ (~ IsRecordAt(f', Len(f'))) => UNCHANGED <<Outputs, name, qq>>
           /\ IsRecordAt(f', Len(f'))
                  => /\ name' = RecName(f', Len(f'))
                     /\ qq' = RecQQ(f', Len(f'))
                     /\ SumValues(total_counts') <= SumValues(total_counts) + 1
                     /\ \A d \in DOMAIN total_counts' :
                            d # RecDate(f', Len(f')) =>
                                d \in DOMAIN total_counts /\ total_counts'[d] = total_counts[d]
           /\ (IsRecordAt(f', Len(f')) /\ msg_filter = None)
                  => total_counts'[RecDate(f', Len(f'))]
                         = Count(total_counts, RecDate(f', Len(f'))) + 1]_vars

\* two info lines, the message of the second, and a line belonging to nothing
C9_Witness ==
    /\ Len(f) = 4
    /\ MatchDate(Strip(f[1])) # None
    /\ MatchDate(Strip(f[2])) # None
    /\ RecDate(f, 3) # MatchDate(Strip(f[1]))
    /\ AcceptedAt(f, 3)
    /\ MatchDate(Strip(f[4])) = None
    /\ SumValues(total_counts) = 1
    /\ DOMAIN total_counts = {RecDate(f, 3)}

\* C10: card_names holds, for every id, the name of the last record of that id
\* that msg_filter accepted and speak_filter let through, speak_counts the
\* number of those records, and no other record adds an id.
C10_LatestNameWins ==
    /\ DOMAIN card_names = {RecQQ(f, k) : k \in {j \in 1..Len(f) : SpokenAt(f, j)}}
    /\ \A id \in DOMAIN card_names :
           LET ks == {k \in 1..Len(f) : SpokenAt(f, k) /\ RecQQ(f, k) = id}
               last == CHOOSE k \in ks : \A j \in ks : j <= k
           IN  /\ card_names[id] = RecName(f, last)
               /\ speak_counts[id] = Cardinality(ks)

\* the same id spoke twice under two names
C10_Witness ==
    \E id \in DOMAIN card_names :
        /\ speak_counts[id] = 2
        /\ SpokenAt(f, 2)
        /\ RecQQ(f, 2) = id
        /\ RecName(f, 2) # card_names[id]

====
